---- MODULE Spec2Model ----
(***************************************************************************)
(* Verification model of the response-acquisition pipeline of the SVD      *)
(* prompt enhancer: the retry loop of EnhancementWorker.enhance_direct     *)
(* (workers/enhancement_worker.py and workers/__init__.py), the JSON       *)
(* salvage parsers (core/__init__.py and core/safe_json_handler.py) and    *)
(* get_retry_delay (config/constants.py).                                  *)
(*                                                                         *)
(* Text is a sequence of lexical tokens.  "LB" "RB" are the braces, "LK"   *)
(* "RK" the square brackets, "Q" a double quote, "COL" a colon, "COM" a    *)
(* comma, "SP" a whitespace character, "D" a digit, "EN" the word          *)
(* prompt_en, "PL" the word prompt_pl, "W" any other word, "NUL" the word  *)
(* null, "TRU" the word true.                                              *)
(***************************************************************************)
EXTENDS Integers, Sequences, FiniteSets, TLC

\* ------------------------------------------------------------------------
\* Program constants
\* ------------------------------------------------------------------------
RETRY_MAX_ATTEMPTS == 3
RETRY_INITIAL_DELAY == 2
RETRY_MAX_DELAY == 30
RETRY_BACKOFF_MULTIPLIER == 2
RAW_PREFIX_LEN == 500

\* ------------------------------------------------------------------------
\* Python values
\* ------------------------------------------------------------------------
PyNone == [t |-> "none"]
PyStr(s) == [t |-> "str", s |-> s]
PyNum(n) == [t |-> "num", n |-> n]
PyInt(i) == [t |-> "int", i |-> i]
PyBool(b) == [t |-> "bool", b |-> b]
PyList(elems) == [t |-> "list", elems |-> elems]
PyDict(items) == [t |-> "dict", items |-> items]

IsStr(v) == v.t = "str"
IsDict(v) == v.t = "dict"

Min(a, b) == IF a <= b THEN a ELSE b

\* dict[key] = value : a later duplicate overwrites, the position is kept
DictSet(items, k, v) ==
    IF \E i \in 1..Len(items) : items[i].k = k
    THEN [i \in 1..Len(items) |->
             IF items[i].k = k THEN [k |-> k, v |-> v] ELSE items[i]]
    ELSE Append(items, [k |-> k, v |-> v])

\* key in data
DictHas(d, k) == \E i \in 1..Len(d.items) : d.items[i].k = k

\* data.get(key) : None when the key is absent
DictGet(d, k) ==
    IF DictHas(d, k)
    THEN (CHOOSE e \in {d.items[i] : i \in 1..Len(d.items)} : e.k = k).v
    ELSE PyNone

\* set(data.keys())
DictKeys(d) == {d.items[i].k : i \in 1..Len(d.items)}

\* truthiness of a Python value (bool(v))
Truthy(v) ==
    CASE v.t = "none" -> FALSE
      [] v.t = "str"  -> Len(v.s) > 0
      [] v.t = "num"  -> TRUE
      [] v.t = "int"  -> v.i # 0
      [] v.t = "bool" -> v.b
      [] v.t = "list" -> Len(v.elems) > 0
      [] v.t = "dict" -> Len(v.items) > 0

\* str.strip() : drop leading and trailing whitespace
RECURSIVE LStrip(_)
LStrip(s) == IF Len(s) > 0 /\ Head(s) = "SP" THEN LStrip(Tail(s)) ELSE s

RECURSIVE RStrip(_)
RStrip(s) ==
    IF Len(s) > 0 /\ s[Len(s)] = "SP" THEN RStrip(SubSeq(s, 1, Len(s) - 1)) ELSE s

Strip(s) == RStrip(LStrip(s))

\* text[:n]
Prefix(s, n) == SubSeq(s, 1, Min(n, Len(s)))

\* ------------------------------------------------------------------------
\* json.loads
\* ------------------------------------------------------------------------
ScanFail == [ok |-> FALSE]
ScanOk(v, p) == [ok |-> TRUE, val |-> v, pos |-> p]

\* whitespace skipped between JSON tokens
RECURSIVE SkipWs(_, _)
SkipWs(txt, i) ==
    IF i <= Len(txt) /\ txt[i] = "SP" THEN SkipWs(txt, i + 1) ELSE i

\* index of the first token from i on that satisfies the class, or Len+1
RECURSIVE RunEnd(_, _, _)
RunEnd(txt, i, stop) ==
    IF i <= Len(txt) /\ txt[i] \notin stop THEN RunEnd(txt, i + 1, stop) ELSE i

\* a string literal whose opening quote is at i
ScanString(txt, i) ==
    LET j == RunEnd(txt, i + 1, {"Q"})
    IN  IF j <= Len(txt) THEN ScanOk(PyStr(SubSeq(txt, i + 1, j - 1)), j + 1)
        ELSE ScanFail

RECURSIVE ScanValue(_, _)
RECURSIVE ScanMembers(_, _, _)
RECURSIVE ScanElems(_, _, _)

\* one JSON value starting exactly at i
ScanValue(txt, i) ==
    IF i > Len(txt) THEN ScanFail
    ELSE CASE txt[i] = "Q" -> ScanString(txt, i)
           [] txt[i] = "D" ->
                LET j == RunEnd(txt, i, {"Q", "LB", "RB", "LK", "RK", "COL",
                                         "COM", "SP", "EN", "PL", "W", "NUL", "TRU"})
                IN  ScanOk(PyNum(SubSeq(txt, i, j - 1)), j)
           [] txt[i] = "NUL" -> ScanOk(PyNone, i + 1)
           [] txt[i] = "TRU" -> ScanOk(PyBool(TRUE), i + 1)
           [] txt[i] = "LB" ->
                LET j == SkipWs(txt, i + 1)
                IN  IF j <= Len(txt) /\ txt[j] = "RB"
                    THEN ScanOk(PyDict(<<>>), j + 1)
                    ELSE ScanMembers(txt, j, <<>>)
           [] txt[i] = "LK" ->
                LET j == SkipWs(txt, i + 1)
                IN  IF j <= Len(txt) /\ txt[j] = "RK"
                    THEN ScanOk(PyList(<<>>), j + 1)
                    ELSE ScanElems(txt, j, <<>>)
           [] OTHER -> ScanFail

\* the members of an object; i is where a key is expected
ScanMembers(txt, i, acc) ==
    IF i > Len(txt) \/ txt[i] # "Q" THEN ScanFail
    ELSE LET key == ScanString(txt, i)
         IN  IF ~key.ok THEN ScanFail
             ELSE LET c == SkipWs(txt, key.pos)
                  IN  IF c > Len(txt) \/ txt[c] # "COL" THEN ScanFail
                      ELSE LET val == ScanValue(txt, SkipWs(txt, c + 1))
                           IN  IF ~val.ok THEN ScanFail
                               ELSE LET e == SkipWs(txt, val.pos)
                                        items == DictSet(acc, key.val.s, val.val)
                                    IN  IF e > Len(txt) THEN ScanFail
                                        ELSE IF txt[e] = "RB"
                                             THEN ScanOk(PyDict(items), e + 1)
                                        ELSE IF txt[e] = "COM"
                                             THEN ScanMembers(txt, SkipWs(txt, e + 1), items)
                                        ELSE ScanFail

\* the elements of an array; i is where a value is expected
ScanElems(txt, i, acc) ==
    LET val == ScanValue(txt, i)
    IN  IF ~val.ok THEN ScanFail
        ELSE LET e == SkipWs(txt, val.pos)
                 elems == Append(acc, val.val)
             IN  IF e > Len(txt) THEN ScanFail
                 ELSE IF txt[e] = "RK" THEN ScanOk(PyList(elems), e + 1)
                 ELSE IF txt[e] = "COM" THEN ScanElems(txt, SkipWs(txt, e + 1), elems)
                 ELSE ScanFail

\* json.loads(text): ok = FALSE stands for json.JSONDecodeError
JsonLoads(txt) ==
    LET r == ScanValue(txt, SkipWs(txt, 1))
    IN  IF r.ok /\ SkipWs(txt, r.pos) = Len(txt) + 1
        THEN [ok |-> TRUE, val |-> r.val]
        ELSE [ok |-> FALSE]

\* ------------------------------------------------------------------------
\* Parse results (core.ParseResult and safe_json_handler.ParseResult)
\* ------------------------------------------------------------------------
KEY_EN == <<"EN">>
KEY_PL == <<"PL">>
REQUIRED_KEYS == {KEY_EN, KEY_PL}

ParseResult(success, data, strategy, err) ==
    [success |-> success, data |-> data, strategy_used |-> strategy,
     error_message |-> err]

\* the first index of tok in txt, or Len+1
FirstIndex(txt, tok) == RunEnd(txt, 1, {tok})

\* the last index of tok in txt, or 0
RECURSIVE LastIndexFrom(_, _, _)
LastIndexFrom(txt, tok, i) ==
    IF i = 0 \/ txt[i] = tok THEN i ELSE LastIndexFrom(txt, tok, i - 1)

LastIndex(txt, tok) == LastIndexFrom(txt, tok, Len(txt))

\* ------------------------------------------------------------------------
\* core/__init__.py : SafeJSONHandler
\* ------------------------------------------------------------------------
\* Strategy 1: json.loads of the whole text, no validation
core_strategy_direct(text) ==
    LET r == JsonLoads(text)
    IN  IF r.ok THEN ParseResult(TRUE, r.val, "DIRECT", "")
        ELSE ParseResult(FALSE, PyNone, "NONE", "JSONDecodeError")

\* Strategy 2: re.search(r'\{[\s\S]*\}') then json.loads of the match
core_strategy_regex(text) ==
    LET i == FirstIndex(text, "LB")
        j == LastIndex(text, "RB")
    IN  IF i > Len(text) \/ j < i
        THEN ParseResult(FALSE, PyNone, "NONE", "No JSON-like pattern found")
        ELSE LET r == JsonLoads(SubSeq(text, i, j))
             IN  IF r.ok THEN ParseResult(TRUE, r.val, "REGEX", "")
                 ELSE ParseResult(FALSE, PyNone, "NONE", "JSONDecodeError")

\* one match of r'"([^"]+)"\s*:\s*"?([^",}]+)"?' starting exactly at p
SplitMatchAt(text, p) ==
    LET NoMatch == [ok |-> FALSE]
        stopV == {"Q", "COM", "RB"}
    IN  IF p > Len(text) \/ text[p] # "Q" THEN NoMatch
        ELSE LET kend == RunEnd(text, p + 1, {"Q"})
             IN  IF kend = p + 1 \/ kend > Len(text) THEN NoMatch
                 ELSE LET b == SkipWs(text, kend + 1)
                      IN  IF b > Len(text) \/ text[b] # "COL" THEN NoMatch
                          ELSE LET c == b + 1
                                   s == SkipWs(text, c)
                                   \* where the value group starts, 0 if nowhere:
                                   \* all spaces and the quote, all spaces, or
                                   \* (backtracking) the last space as the value
                                   vs == IF s <= Len(text) /\ text[s] = "Q"
                                            /\ s + 1 <= Len(text)
                                            /\ text[s + 1] \notin stopV
                                         THEN s + 1
                                         ELSE IF s <= Len(text) /\ text[s] \notin stopV
                                         THEN s
                                         ELSE IF s > c THEN s - 1
                                         ELSE 0
                               IN  IF vs = 0 THEN NoMatch
                                   ELSE LET ve == RunEnd(text, vs, stopV)
                                        IN  [ok |-> TRUE,
                                             key |-> SubSeq(text, p + 1, kend - 1),
                                             value |-> SubSeq(text, vs, ve - 1),
                                             end |-> IF ve <= Len(text) /\ text[ve] = "Q"
                                                     THEN ve + 1 ELSE ve]

\* re.findall of the key-value pattern: non-overlapping, left to right
RECURSIVE SplitFindAll(_, _)
SplitFindAll(text, p) ==
    IF p > Len(text) THEN <<>>
    ELSE LET m == SplitMatchAt(text, p)
         IN  IF m.ok THEN <<[k |-> m.key, v |-> m.value]>> \o SplitFindAll(text, m.end)
             ELSE SplitFindAll(text, p + 1)

\* the type conversion of one scraped value
SplitConvert(value) ==
    IF value = <<"TRU">> THEN PyBool(TRUE)
    ELSE IF \A i \in 1..Len(value) : value[i] = "D" THEN PyNum(value)
    ELSE PyStr(value)

RECURSIVE SplitBuild(_, _)
SplitBuild(matches, acc) ==
    IF matches = <<>> THEN acc
    ELSE SplitBuild(Tail(matches),
                    DictSet(acc, Head(matches).k, SplitConvert(Head(matches).v)))

\* Strategy 3: scrape "key": value fragments, no validation
core_strategy_split(text) ==
    LET matches == SplitFindAll(text, 1)
    IN  IF matches = <<>>
        THEN ParseResult(FALSE, PyNone, "NONE", "No key-value pairs found")
        ELSE ParseResult(TRUE, PyDict(SplitBuild(matches, <<>>)), "SPLIT", "")

\* Strategy 4: the fallback payload, always a success
core_strategy_partial(text) ==
    ParseResult(TRUE,
        PyDict(<<[k |-> <<"raw_response">>, v |-> PyStr(Prefix(text, RAW_PREFIX_LEN))],
                 [k |-> <<"length">>, v |-> PyInt(Len(text))],
                 [k |-> <<"contains_json">>,
                  v |-> PyBool((\E i \in 1..Len(text) : text[i] = "LB")
                               /\ (\E i \in 1..Len(text) : text[i] = "RB"))]>>),
        "PARTIAL", "")

\* SafeJSONHandler.parse of core/__init__.py; text is any Python value
core_parse(text) ==
    IF ~Truthy(text) \/ ~IsStr(text)
    THEN ParseResult(FALSE, PyNone, "NONE", "Invalid input")
    ELSE LET direct == core_strategy_direct(text.s)
             regex == core_strategy_regex(text.s)
             split == core_strategy_split(text.s)
         IN  IF direct.success THEN direct
             ELSE IF regex.success THEN regex
             ELSE IF split.success THEN split
             ELSE core_strategy_partial(text.s)

\* ------------------------------------------------------------------------
\* core/safe_json_handler.py : SafeJSONHandler
\* ------------------------------------------------------------------------
WordTokens == {"EN", "PL", "W", "D", "NUL", "TRU"}
NonWordTokens == {"LB", "RB", "LK", "RK", "Q", "COL", "COM", "SP"}

FALLBACK_EN == <<"Error parsing response. Please try again.">>
FALLBACK_PL == <<"Blad parsowania odpowiedzi. Sprobuj ponownie.">>

\* a validation that accepts nothing but the two required keys
validate_json_exact(data) ==
    /\ IsDict(data)
    /\ DictKeys(data) = REQUIRED_KEYS
    /\ \A key \in REQUIRED_KEYS :
          /\ IsStr(DictGet(data, key))
          /\ Len(Strip(DictGet(data, key).s)) # 0

\* _validate_json: a dict holding both required keys as non-blank strings
validate_json(data) ==
    /\ IsDict(data)
    /\ REQUIRED_KEYS \ DictKeys(data) = {}
    /\ \A key \in REQUIRED_KEYS :
          /\ IsStr(DictGet(data, key))
          /\ Len(Strip(DictGet(data, key).s)) # 0

\* Strategy 1: json.loads of the whole response, then validation
strategy_direct_parse(response) ==
    LET r == JsonLoads(response)
    IN  IF r.ok
        THEN IF validate_json(r.val)
             THEN ParseResult(TRUE, r.val, "DIRECT_PARSE", "")
             ELSE ParseResult(FALSE, PyNone, "DIRECT_PARSE", "Missing required keys")
        ELSE ParseResult(FALSE, PyNone, "DIRECT_PARSE", "JSONDecodeError")

\* one match of JSON_PATTERN r'\{[^{}]*(?:\{[^{}]*\}[^{}]*)*\}' whose opening
\* brace is at p; q is the next brace to look at.  Returns the index after
\* the match, or 0.
RECURSIVE JsonPatternEnd(_, _)
JsonPatternEnd(text, q) ==
    IF q > Len(text) THEN 0
    ELSE IF text[q] = "RB" THEN q + 1
    ELSE LET q2 == RunEnd(text, q + 1, {"LB", "RB"})
         IN  IF q2 > Len(text) \/ text[q2] # "RB" THEN 0
             ELSE JsonPatternEnd(text, RunEnd(text, q2 + 1, {"LB", "RB"}))

\* JSON_PATTERN.findall(response)
RECURSIVE JsonPatternFindAll(_, _)
JsonPatternFindAll(text, p) ==
    IF p > Len(text) THEN <<>>
    ELSE LET e == IF text[p] = "LB"
                  THEN JsonPatternEnd(text, RunEnd(text, p + 1, {"LB", "RB"}))
                  ELSE 0
         IN  IF e # 0 THEN <<SubSeq(text, p, e - 1)>> \o JsonPatternFindAll(text, e)
             ELSE JsonPatternFindAll(text, p + 1)

\* the loop over the matches: the first that parses and validates
RECURSIVE FirstValidMatch(_)
FirstValidMatch(matches) ==
    IF matches = <<>> THEN [ok |-> FALSE]
    ELSE LET r == JsonLoads(Head(matches))
         IN  IF r.ok /\ validate_json(r.val) THEN [ok |-> TRUE, val |-> r.val]
             ELSE FirstValidMatch(Tail(matches))

\* Strategy 2: every {...} match is tried in the order found
strategy_regex_extraction(response) ==
    LET matches == JsonPatternFindAll(response, 1)
    IN  IF matches = <<>>
        THEN ParseResult(FALSE, PyNone, "REGEX_EXTRACTION", "No JSON pattern found")
        ELSE LET m == FirstValidMatch(matches)
             IN  IF m.ok THEN ParseResult(TRUE, m.val, "REGEX_EXTRACTION", "")
                 ELSE ParseResult(FALSE, PyNone, "REGEX_EXTRACTION",
                                  "No valid JSON found in matches")

\* one match of KEY_VALUE_PATTERN r'"(\w+)"\s*:\s*"([^"]*)"' starting at p
KeyValueMatchAt(text, p) ==
    LET NoMatch == [ok |-> FALSE]
    IN  IF p > Len(text) \/ text[p] # "Q" THEN NoMatch
        ELSE LET kend == RunEnd(text, p + 1, NonWordTokens)
             IN  IF kend = p + 1 \/ kend > Len(text) \/ text[kend] # "Q" THEN NoMatch
                 ELSE LET b == SkipWs(text, kend + 1)
                      IN  IF b > Len(text) \/ text[b] # "COL" THEN NoMatch
                          ELSE LET s == SkipWs(text, b + 1)
                               IN  IF s > Len(text) \/ text[s] # "Q" THEN NoMatch
                                   ELSE LET ve == RunEnd(text, s + 1, {"Q"})
                                        IN  IF ve > Len(text) THEN NoMatch
                                            ELSE [ok |-> TRUE,
                                                  key |-> SubSeq(text, p + 1, kend - 1),
                                                  value |-> SubSeq(text, s + 1, ve - 1),
                                                  end |-> ve + 1]

\* KEY_VALUE_PATTERN.findall(response)
RECURSIVE KeyValueFindAll(_, _)
KeyValueFindAll(text, p) ==
    IF p > Len(text) THEN <<>>
    ELSE LET m == KeyValueMatchAt(text, p)
         IN  IF m.ok THEN <<[k |-> m.key, v |-> m.value]>> \o KeyValueFindAll(text, m.end)
             ELSE KeyValueFindAll(text, p + 1)

\* reconstructed[key] = value for every match
RECURSIVE Reconstruct(_, _)
Reconstruct(matches, acc) ==
    IF matches = <<>> THEN acc
    ELSE Reconstruct(Tail(matches),
                     DictSet(acc, Head(matches).k, PyStr(Head(matches).v)))

\* Strategy 3: scrape "key": "value" fragments, then validation
strategy_partial_parse(response) ==
    LET matches == KeyValueFindAll(response, 1)
    IN  IF matches = <<>>
        THEN ParseResult(FALSE, PyNone, "PARTIAL_PARSE", "No key-value pairs found")
        ELSE LET reconstructed == PyDict(Reconstruct(matches, <<>>))
             IN  IF validate_json(reconstructed)
                 THEN ParseResult(TRUE, reconstructed, "PARTIAL_PARSE", "")
                 ELSE ParseResult(FALSE, PyNone, "PARTIAL_PARSE", "Missing required keys")

\* len(v) is defined for strings, lists and dicts only
HasLen(v) == v.t \in {"str", "list", "dict"}
PyLen(v) ==
    CASE v.t = "str" -> Len(v.s)
      [] v.t = "list" -> Len(v.elems)
      [] v.t = "dict" -> Len(v.items)

\* a fallback result that carries no data
fallback_result_NoData(response, error) ==
    [raised |-> ~HasLen(response),
     result |-> ParseResult(FALSE, PyNone, "FALLBACK", error)]

\* _fallback_result: raises TypeError when len(response) is undefined
fallback_result(response, error) ==
    IF ~HasLen(response)
    THEN [raised |-> TRUE, result |-> ParseResult(FALSE, PyNone, "NONE", "TypeError")]
    ELSE [raised |-> FALSE,
          result |-> ParseResult(FALSE,
              PyDict(<<[k |-> KEY_EN, v |-> PyStr(FALLBACK_EN)],
                       [k |-> KEY_PL, v |-> PyStr(FALLBACK_PL)],
                       [k |-> <<"error">>, v |-> PyStr(<<error>>)],
                       [k |-> <<"raw_response_length">>, v |-> PyInt(PyLen(response))]>>),
              "FALLBACK", error)]

\* SafeJSONHandler.parse of safe_json_handler.py; response is any Python
\* value.  counted names the strategy counter the call increments besides
\* total_attempts ("none" when it increments no other counter).
parse(response) ==
    IF ~Truthy(response) \/ ~IsStr(response)
    THEN [counted |-> "none"] @@ fallback_result(response, "Invalid response type")
    ELSE LET direct == strategy_direct_parse(response.s)
             regex == strategy_regex_extraction(response.s)
             partial == strategy_partial_parse(response.s)
         IN  IF direct.success
             THEN [raised |-> FALSE, counted |-> "direct", result |-> direct]
             ELSE IF regex.success
             THEN [raised |-> FALSE, counted |-> "regex", result |-> regex]
             ELSE IF partial.success
             THEN [raised |-> FALSE, counted |-> "partial", result |-> partial]
             ELSE [counted |-> "fallback"]
                  @@ fallback_result(response, "All parsing strategies failed")

\* ------------------------------------------------------------------------
\* utils/regex_utils.py : extract_json_from_response
\* ------------------------------------------------------------------------
NoMatchFound == [ok |-> FALSE]
MatchFound(s, p, e) == [ok |-> TRUE, text |-> SubSeq(s, p, e)]

\* the first index at or after i where the quoted key starts, Len+1 if none
RECURSIVE FindKey(_, _, _)
FindKey(s, key, i) ==
    IF i + 2 > Len(s) THEN Len(s) + 1
    ELSE IF s[i] = "Q" /\ s[i + 1] = key /\ s[i + 2] = "Q" THEN i
    ELSE FindKey(s, key, i + 1)

\* r'\{[^{}]*"k1"[^{}]*"k2"[^{}]*\}' matched with its opening brace at p:
\* the index of the closing brace, 0 when there is no match
StrictMatchEnd(s, k1, k2, p) ==
    LET e == RunEnd(s, p + 1, {"LB", "RB"})
        a == FindKey(s, k1, p + 1)
        b == FindKey(s, k2, a + 3)
    IN  IF s[p] = "LB" /\ e <= Len(s) /\ s[e] = "RB" /\ b + 2 < e THEN e ELSE 0

\* r'\{.*?"k1".*?"k2".*?\}' matched with its opening brace at p
LazyMatchEnd(s, k1, k2, p) ==
    LET a == FindKey(s, k1, p + 1)
        b == FindKey(s, k2, a + 3)
        e == RunEnd(s, b + 3, {"RB"})
    IN  IF s[p] = "LB" /\ e <= Len(s) THEN e ELSE 0

\* re.search of a pattern: the leftmost position where it matches
RECURSIVE SearchFrom(_, _, _, _, _)
SearchFrom(s, k1, k2, lazy, p) ==
    IF p > Len(s) THEN NoMatchFound
    ELSE LET e == IF lazy THEN LazyMatchEnd(s, k1, k2, p)
                  ELSE StrictMatchEnd(s, k1, k2, p)
         IN  IF e # 0 THEN MatchFound(s, p, e)
             ELSE SearchFrom(s, k1, k2, lazy, p + 1)

\* re.search(r'\{.*\}'): from the first opening to the last closing brace
GreedySearch(s) ==
    LET i == FirstIndex(s, "LB")
        j == LastIndex(s, "RB")
    IN  IF i <= Len(s) /\ i < j THEN MatchFound(s, i, j) ELSE NoMatchFound

\* the patterns in the order they are tried
PatternMatches(s) ==
    <<SearchFrom(s, "EN", "PL", FALSE, 1), SearchFrom(s, "PL", "EN", FALSE, 1),
      SearchFrom(s, "EN", "PL", TRUE, 1), SearchFrom(s, "PL", "EN", TRUE, 1),
      GreedySearch(s)>>

\* json.loads of a match and the test for both keys
MatchAccepted(loaded) ==
    loaded.ok /\ IsDict(loaded.val)
        /\ DictHas(loaded.val, KEY_EN) /\ DictHas(loaded.val, KEY_PL)

\* the fallback dictionary built from the raw response
RawFallback(s) ==
    PyDict(<<[k |-> KEY_EN, v |-> PyStr(Prefix(s, RAW_PREFIX_LEN))],
             [k |-> KEY_PL, v |-> PyStr(Prefix(s, RAW_PREFIX_LEN))],
             [k |-> <<"_status">>, v |-> PyStr(<<"fallback_raw_response">>)]>>)

\* the loop over the patterns from the i-th on
RECURSIVE TryPatterns(_, _, _)
TryPatterns(s, matches, i) ==
    IF i > Len(matches) THEN [fallback |-> TRUE, data |-> RawFallback(s)]
    ELSE IF matches[i].ok /\ MatchAccepted(JsonLoads(matches[i].text))
    THEN [fallback |-> FALSE, data |-> JsonLoads(matches[i].text).val]
    ELSE TryPatterns(s, matches, i + 1)

\* extract_json_from_response(response) for a string response
extract_json_from_response(response) ==
    TryPatterns(response.s, PatternMatches(response.s), 1)

\* ------------------------------------------------------------------------
\* config/constants.py : get_retry_delay
\* ------------------------------------------------------------------------
RECURSIVE Pow(_, _)
Pow(b, n) == IF n = 0 THEN 1 ELSE b * Pow(b, n - 1)

\* the delay without the cap
get_retry_delay_NoCap(attempt) ==
    RETRY_INITIAL_DELAY * Pow(RETRY_BACKOFF_MULTIPLIER, attempt)

get_retry_delay(attempt) ==
    Min(RETRY_INITIAL_DELAY * Pow(RETRY_BACKOFF_MULTIPLIER, attempt), RETRY_MAX_DELAY)

\* range(int(delay)) : one slice per second of delay
SleepSlices_NoScale(attempt) == get_retry_delay(attempt)

\* range(int(delay * 10)) : the number of 100 ms slices of one backoff wait
SleepSlices(attempt) == get_retry_delay(attempt) * 10

\* ------------------------------------------------------------------------
\* Inputs of the model
\* ------------------------------------------------------------------------
ObjOf(enVal, plVal) ==
    <<"LB", "Q", "EN", "Q", "COL">> \o enVal \o <<"COM", "SP", "Q", "PL", "Q", "COL">>
        \o plVal \o <<"RB">>

StrLit(s) == <<"Q">> \o s \o <<"Q">>

T_valid == ObjOf(StrLit(<<"W">>), StrLit(<<"W", "SP", "W">>))
T_prose == <<"W", "SP">> \o T_valid \o <<"SP", "W">>
T_garbage == <<"W", "SP", "W">>
T_emptyobj == <<"LB", "RB">>
T_number == <<"D">>
T_onlyEn == <<"LB", "Q", "EN", "Q", "COL", "Q", "W", "Q", "RB">>
T_onlyPl == <<"LB", "Q", "PL", "Q", "COL", "Q", "W", "Q", "RB">>
T_kv == <<"Q", "EN", "Q", "COL", "SP", "Q", "W", "Q", "COM", "SP",
          "Q", "PL", "Q", "COL", "SP", "Q", "W", "Q">>
T_blank == ObjOf(StrLit(<<"SP">>), StrLit(<<"W">>))
T_nullEn == ObjOf(<<"NUL">>, StrLit(<<"W">>))
T_list == <<"LK", "D", "RK">>

\* the texts an upstream call may deliver
ResponseTexts ==
    {T_valid, T_prose, T_garbage, T_emptyobj, T_number, T_onlyEn, T_onlyPl,
     T_kv, T_blank, T_nullEn, T_list, <<>>}

\* the values response_data.get('response', '') may deliver
ResponseValues == {PyStr(t) : t \in ResponseTexts} \cup {PyNone, PyNum(<<"D">>)}

\* what one requests.post may do
OutcomeKinds ==
    {"timeout", "connection_error", "http_error", "invalid_body", "non_dict_body", "ok"}

Impls == {"enhancement_worker", "workers_init"}

\* ------------------------------------------------------------------------
\* State
\* ------------------------------------------------------------------------
VARIABLES
    impl,        \* which EnhancementWorker the session runs
    pc,          \* position of enhance_direct
    attempt,     \* the loop variable of the retry loop
    tick,        \* the loop variable of the backoff wait
    cancelled,   \* self.cancelled
    last_error,  \* last_error of enhancement_worker.py
    result,      \* the EnhancementResult returned, NoResult before
    calls,       \* history: network calls issued
    slept,       \* history: 100 ms slices slept after each attempt
    cancelAt,    \* history: where enhance_direct was at the first cancel()
    lastOutcome, \* history: outcome of the latest network call
    allTimeout,  \* history: every network call so far timed out
    last_status, \* the status the worker emitted last
    stats,       \* strategy_stats of one safe_json_handler.SafeJSONHandler
    parseIn,     \* the argument of the latest parse call
    parseOut,    \* what the latest parse call did
    delayArgs,   \* two attempt numbers handed to get_retry_delay
    delayVals,   \* the delays computed for them
    enhance_button,  \* main.py: enhance_button is enabled
    cancel_button,   \* main.py: cancel_button is enabled
    gui_thread,      \* main.py: what the GUI thread is executing
    clicks,          \* main.py: clicks queued for the event loop
    cancelClicked,   \* history: cancel clicked while the session was in a call or a wait
    direct_enhance_btn,      \* enhance_tab.py: direct_enhance_btn is enabled
    with_image_enhance_btn,  \* enhance_tab.py: with_image_enhance_btn is enabled
    with_image_analyze_btn,  \* enhance_tab.py: with_image_analyze_btn is enabled
    current_image_path,      \* enhance_tab.py: the selected image, NoImage if none
    image_analysis,          \* enhance_tab.py: the image the stored analysis is of
    enhancement_worker,      \* enhance_tab.py: the handler that created self.enhancement_worker
    running,                 \* enhance_tab.py: worker threads started and not finished
    direct_progress,         \* enhance_tab.py: direct_progress.value()
    with_image_progress,     \* enhance_tab.py: with_image_progress.value()
    stage,            \* prompt_enhancer.py: position of PromptEnhancer.enhance_direct
    pe_args,          \* prompt_enhancer.py: the arguments of the call
    posted,           \* history: the requests.post calls of the call, in order
    expansion_reply,  \* history: what the expansion request came back with
    expanded_prompt,  \* prompt_enhancer.py: expanded_prompt of enhance_direct
    pe_result         \* prompt_enhancer.py: what enhance_direct returned

workerVars == <<impl, pc, attempt, tick, cancelled, last_error, result, calls,
                slept, cancelAt, lastOutcome, allTimeout, last_status>>
parseVars == <<stats, parseIn, parseOut>>
delayVars == <<delayArgs, delayVals>>
mainVars == <<enhance_button, cancel_button, gui_thread, clicks, cancelClicked>>
tabVars == <<direct_enhance_btn, with_image_enhance_btn, with_image_analyze_btn,
             current_image_path, image_analysis, enhancement_worker, running,
             direct_progress, with_image_progress>>
guiVars == <<mainVars, tabVars>>
enhancerVars == <<stage, pe_args, posted, expansion_reply, expanded_prompt,
                  pe_result>>
vars == <<workerVars, parseVars, delayVars, guiVars, enhancerVars>>

NoResult == [none |-> TRUE]
NoCancel == [pc |-> "never", attempt |-> 0, tick |-> 0]
NoOutcome == [kind |-> "none", strategy |-> "NONE", err |-> "None"]

EnhancementResult(success, en, pl, strategy, attempts, err) ==
    [success |-> success, prompt_en |-> en, prompt_pl |-> pl,
     strategy_used |-> strategy, attempts |-> attempts, error_message |-> err]

ZeroStats == [direct |-> 0, regex |-> 0, partial |-> 0, fallback |-> 0,
              total_attempts |-> 0]
NoParse == [handler |-> "none", raised |-> FALSE, counted |-> "none",
            result |-> ParseResult(FALSE, PyNone, "NONE", "")]
NoDelays == [n |-> 0, m |-> 0]

ParseIdle ==
    /\ stats = ZeroStats
    /\ parseIn = PyNone
    /\ parseOut = NoParse

DelayIdle ==
    /\ delayArgs = [n |-> 0, m |-> 0]
    /\ delayVals = NoDelays

WorkerIdle ==
    /\ pc = "idle"
    /\ attempt = 0
    /\ tick = 0
    /\ cancelled = FALSE
    /\ last_error = "None"
    /\ result = NoResult
    /\ calls = 0
    /\ slept = [a \in 0..RETRY_MAX_ATTEMPTS |-> 0]
    /\ cancelAt = NoCancel
    /\ lastOutcome = NoOutcome
    /\ allTimeout = TRUE
    /\ last_status = "IDLE"

MaxImages == 2
\* the image files the dialog can return
Images == 1..MaxImages
\* self.current_image_path = None, self.image_analysis = None
NoImage == 0

\* no worker thread of the tab is running; image_path counts the running
\* ImageAnalysisWorker threads by the path each was constructed with
NoThreads ==
    [direct |-> 0, with_image |-> 0, image |-> 0,
     image_path |-> [p \in Images |-> 0]]

\* MainWindow.__init__ / init_ui of main.py
MainIdle ==
    /\ enhance_button = TRUE
    /\ cancel_button = FALSE
    /\ gui_thread = "idle"
    /\ clicks = <<>>
    /\ cancelClicked = FALSE

\* EnhanceTab.__init__ / init_ui
TabIdle ==
    /\ direct_enhance_btn = TRUE
    /\ with_image_enhance_btn = FALSE
    /\ with_image_analyze_btn = TRUE
    /\ current_image_path = NoImage
    /\ image_analysis = NoImage
    /\ enhancement_worker = "None"
    /\ running = NoThreads
    /\ direct_progress = 0
    /\ with_image_progress = 0

GuiIdle == MainIdle /\ TabIdle

NoArgs == [none |-> TRUE]
NoReply == [kind |-> "none"]

\* no call of PromptEnhancer.enhance_direct has been made
EnhancerIdle ==
    /\ stage = "idle"
    /\ pe_args = NoArgs
    /\ posted = <<>>
    /\ expansion_reply = NoReply
    /\ expanded_prompt = PyNone
    /\ pe_result = NoResult

Init ==
    /\ impl \in Impls
    /\ WorkerIdle
    /\ ParseIdle
    /\ DelayIdle
    /\ GuiIdle
    /\ EnhancerIdle

\* ------------------------------------------------------------------------
\* EnhancementWorker.cancel
\* ------------------------------------------------------------------------
\* a cancel() that flips the flag
CancelFlag_Toggle(flag) == ~flag

\* self.cancelled.set() / self.cancelled = True
CancelFlag(flag) == TRUE

Cancel ==
    /\ cancelled' = CancelFlag(cancelled)
    /\ cancelAt' = IF cancelled THEN cancelAt
                   ELSE [pc |-> pc, attempt |-> attempt, tick |-> tick]
    /\ UNCHANGED <<impl, pc, attempt, tick, last_error, result, calls, slept,
                   lastOutcome, allTimeout,
                   last_status>>
    /\ UNCHANGED <<parseVars, delayVars, guiVars, enhancerVars>>

\* ------------------------------------------------------------------------
\* EnhancementWorker.enhance_direct
\* ------------------------------------------------------------------------
Return(r) ==
    /\ result' = r
    /\ pc' = "done"

\* a cancel() that came before the call of enhance_direct
CancelBefore == [pc |-> "idle", attempt |-> 0, tick |-> 0]

\* entry, on a new worker or on one whose earlier call has returned: the
\* locals of the call are fresh, self.cancelled is whatever the worker holds;
\* workers/__init__.py rejects an empty or non-string prompt
Start(promptOk) ==
    /\ pc \in {"idle", "done"}
    /\ IF impl = "workers_init" /\ ~promptOk
       THEN Return(EnhancementResult(FALSE, PyNone, PyNone, "None", 1,
                                     "Invalid prompt: must be non-empty string"))
       ELSE /\ pc' = "top"
            /\ result' = NoResult
    /\ attempt' = 0
    /\ tick' = 0
    /\ last_error' = "None"
    /\ calls' = 0
    /\ slept' = [a \in 0..RETRY_MAX_ATTEMPTS |-> 0]
    /\ cancelAt' = IF cancelled THEN CancelBefore ELSE NoCancel
    /\ lastOutcome' = NoOutcome
    /\ allTimeout' = TRUE
    /\ last_status' = IF impl = "enhancement_worker" THEN "PREPARING"
                      ELSE last_status
    /\ UNCHANGED <<impl, cancelled>>
    /\ UNCHANGED <<parseVars, delayVars, guiVars, enhancerVars>>

\* the attempts made so far
TopCancelAttempts_SoFar(a) == a

\* the attempt count a result cancelled at the top of the loop reports
TopCancelAttempts(a) == a + 1

\* top of one iteration: the cancellation check, then the request is sent
LoopTop ==
    /\ pc = "top"
    /\ IF cancelled
       THEN /\ Return(EnhancementResult(FALSE, PyNone, PyNone, "None",
                                        TopCancelAttempts(attempt), "Cancelled by user"))
       ELSE /\ pc' = "send"
            /\ UNCHANGED result
    /\ UNCHANGED <<impl, attempt, tick, cancelled, last_error, calls, slept,
                   cancelAt, lastOutcome, allTimeout,
                   last_status>>
    /\ UNCHANGED <<parseVars, delayVars, guiVars, enhancerVars>>

\* the history counter calls is not followed beyond this many calls
MaxCalls == 4

\* the iteration goes on past the check: the progress and status signals,
\* then requests.post is issued
SendCall ==
    /\ pc = "send"
    /\ calls < MaxCalls
    /\ pc' = "call"
    /\ calls' = calls + 1
    /\ UNCHANGED <<impl, attempt, tick, cancelled, last_error, result, slept,
                   cancelAt, lastOutcome, allTimeout>>
    /\ last_status' = IF impl = "enhancement_worker" THEN "SENDING" ELSE "ATTEMPT"
    /\ UNCHANGED <<parseVars, delayVars, guiVars, enhancerVars>>

\* what one attempt comes to: a return of the session's result, a failure that
\* lets the loop go on, or an exception still propagating
AttemptReturn(r, strategy) ==
    [returns |-> TRUE, raises |-> FALSE, result |-> r, strategy |-> strategy]
AttemptFail(err, strategy) ==
    [returns |-> FALSE, raises |-> FALSE, err |-> err, strategy |-> strategy]
AttemptRaise(exc, strategy) ==
    [returns |-> FALSE, raises |-> TRUE, err |-> exc, strategy |-> strategy]

\* a count that reports the index of the attempt
AttemptsUsed_Index(a) == a

\* attempts=attempt + 1 / result.attempts = attempt + 1 of a success
AttemptsUsed(a) == a + 1

\* whether a successful parse result is returned as the session's success
AcceptParsed(pr, a) == pr.success

\* enhancement_worker.py: what the try block does with parse_result
EW_Parsed(pr, a) ==
    IF AcceptParsed(pr, a)
    THEN IF ~IsDict(pr.data)
         THEN AttemptRaise("AttributeError", pr.strategy_used)
         ELSE AttemptReturn(
                  EnhancementResult(TRUE, DictGet(pr.data, KEY_EN),
                      DictGet(pr.data, KEY_PL), pr.strategy_used, AttemptsUsed(a), "None"),
                  pr.strategy_used)
    ELSE IF Truthy(pr.data) /\ IsDict(pr.data)
            /\ DictHas(pr.data, KEY_EN) /\ DictHas(pr.data, KEY_PL)
         THEN AttemptReturn(
                  EnhancementResult(TRUE, DictGet(pr.data, KEY_EN),
                      DictGet(pr.data, KEY_PL), pr.strategy_used, AttemptsUsed(a), "None"),
                  pr.strategy_used)
         ELSE AttemptFail("Parse error", pr.strategy_used)

\* enhancement_worker.py: the try block of one iteration (_call_ollama_api,
\* len(response), json_handler.parse)
EW_Try(kind, body, a) ==
    CASE kind = "timeout" -> AttemptRaise("Timeout", "NONE")
      [] kind = "connection_error" -> AttemptRaise("ConnectionError", "NONE")
      [] kind = "http_error" -> AttemptRaise("HTTPError", "NONE")
      [] kind = "invalid_body" -> AttemptRaise("JSONDecodeError", "NONE")
      [] kind = "non_dict_body" -> AttemptRaise("AttributeError", "NONE")
      [] kind = "ok" ->
            IF ~HasLen(body) THEN AttemptRaise("TypeError", "NONE")
            ELSE EW_Parsed(core_parse(body), a)

\* except clauses that name three exception types and nothing else
EW_Except_Named(exc, strategy) ==
    CASE exc = "Timeout" -> AttemptFail("Ollama timeout (exceeded 120s)", "NONE")
      [] exc = "ConnectionError" ->
            AttemptFail("Cannot connect to Ollama (localhost:11434)", "NONE")
      [] exc = "JSONDecodeError" -> AttemptFail("Invalid JSON from Ollama", "NONE")
      [] OTHER -> AttemptRaise(exc, strategy)

\* enhancement_worker.py: the except clauses of the iteration
EW_Except(exc, strategy) ==
    CASE exc = "Timeout" -> AttemptFail("Ollama timeout (exceeded 120s)", "NONE")
      [] exc = "ConnectionError" ->
            AttemptFail("Cannot connect to Ollama (localhost:11434)", "NONE")
      [] exc = "JSONDecodeError" -> AttemptFail("Invalid JSON from Ollama", "NONE")
      [] OTHER -> AttemptFail(exc, strategy)

\* enhancement_worker.py: the try statement of one iteration
EW_Catch(out) == IF out.raises THEN EW_Except(out.err, out.strategy) ELSE out

EW_Attempt(kind, body, a) == EW_Catch(EW_Try(kind, body, a))

\* value or "" 
OrEmpty(v) == IF Truthy(v) THEN v ELSE PyStr(<<>>)

\* the test of workers/__init__.py that rejects a parsed payload
MissingPrompts(en, pl) == ~Truthy(en) /\ ~Truthy(pl)

\* workers/__init__.py: what _call_ollama_api does with parse_result
WI_Parsed(pr, a) ==
    IF ~pr.success
    THEN AttemptFail("Failed to parse response", pr.strategy_used)
    ELSE IF Truthy(pr.data) /\ ~IsDict(pr.data)
    THEN AttemptRaise("AttributeError", pr.strategy_used)
    ELSE LET parsed_data == IF Truthy(pr.data) THEN pr.data ELSE PyDict(<<>>)
             prompt_en == OrEmpty(DictGet(parsed_data, KEY_EN))
             prompt_pl == OrEmpty(DictGet(parsed_data, KEY_PL))
         IN  IF MissingPrompts(prompt_en, prompt_pl)
             THEN AttemptFail("API response missing prompt_en or prompt_pl",
                              pr.strategy_used)
             ELSE AttemptReturn(
                      EnhancementResult(TRUE, prompt_en, prompt_pl,
                          pr.strategy_used, AttemptsUsed(a), "None"),
                      pr.strategy_used)

\* workers/__init__.py: the try block of _call_ollama_api
WI_Try(kind, body, a) ==
    CASE kind = "timeout" -> AttemptRaise("Timeout", "NONE")
      [] kind = "connection_error" -> AttemptRaise("ConnectionError", "NONE")
      [] kind = "http_error" -> AttemptFail("API returned status", "NONE")
      [] kind = "ok" -> WI_Parsed(core_parse(body), a)

\* workers/__init__.py: the except clauses of _call_ollama_api
WI_Except(exc, strategy) ==
    CASE exc = "Timeout" -> AttemptFail("API timeout", "NONE")
      [] exc = "ConnectionError" -> AttemptFail("Cannot connect to Ollama", "NONE")
      [] OTHER -> AttemptFail("API call failed", strategy)

\* workers/__init__.py: the try statement of _call_ollama_api
WI_Catch(out) == IF out.raises THEN WI_Except(out.err, out.strategy) ELSE out

\* workers/__init__.py: the except Exception of the loop of enhance_direct
WI_LoopCatch(out) ==
    IF out.raises THEN AttemptFail("attempt failed", out.strategy) ELSE out

\* workers/__init__.py: _call_ollama_api and the success test of the loop
WI_Attempt(kind, body, a) == WI_LoopCatch(WI_Catch(WI_Try(kind, body, a)))

KindsOf(i) ==
    IF i = "enhancement_worker" THEN OutcomeKinds
    ELSE {"timeout", "connection_error", "http_error", "ok"}

\* workers/__init__.py parses response.text, which is always a string
BodiesOf(i) ==
    IF i = "enhancement_worker" THEN ResponseValues
    ELSE {v \in ResponseValues : IsStr(v)}

\* the result returned when the loop runs out of attempts
Exhausted(i, err) ==
    IF i = "enhancement_worker"
    THEN EnhancementResult(FALSE, PyNone, PyNone, "None", RETRY_MAX_ATTEMPTS, err)
    ELSE EnhancementResult(FALSE, PyNone, PyNone, "None", RETRY_MAX_ATTEMPTS,
                           "All 3 attempts failed")

\* a loop that waits after the final attempt too and then goes on
WaitsAfter_Always(a) == TRUE

\* whether a backoff wait follows the failed attempt a
WaitsAfter(a) == a < RETRY_MAX_ATTEMPTS - 1

\* the status emitted last when the iteration that yielded out has run on to
\* the return, the start of the wait or the end of the loop
StatusAfter(i, out, a, prev) ==
    IF out.returns THEN "SUCCESS"
    ELSE IF out.raises THEN prev
    ELSE IF WaitsAfter(a) THEN "RETRYING"
    ELSE IF i = "enhancement_worker" THEN "FAILED"
    ELSE prev

\* the rest of the iteration once the attempt has yielded out: the return,
\* the start of the backoff wait or the end of the loop
AfterAttempt(kind, out) ==
    LET err == IF impl = "enhancement_worker" /\ ~out.returns
               THEN out.err ELSE last_error
    IN  /\ lastOutcome' = [kind |-> kind, strategy |-> out.strategy,
                            err |-> IF out.returns THEN "None" ELSE out.err]
        /\ allTimeout' = (allTimeout /\ kind = "timeout")
        /\ last_status' = StatusAfter(impl, out, attempt, last_status)
        /\ last_error' = err
        /\ IF out.returns
           THEN /\ Return(out.result)
                /\ UNCHANGED tick
           ELSE IF out.raises
           THEN /\ pc' = "raised"
                /\ UNCHANGED <<result, tick>>
           ELSE IF WaitsAfter(attempt)
           THEN /\ pc' = "sleep_check"
                /\ tick' = 0
                /\ UNCHANGED result
           ELSE /\ Return(Exhausted(impl, err))
                /\ UNCHANGED tick

\* the network call of the attempt completes and the iteration runs on up to
\* the return, the start of the backoff wait or the end of the loop
FinishCall(kind, body) ==
    /\ pc = "call"
    /\ kind \in KindsOf(impl)
    /\ body \in BodiesOf(impl)
    /\ kind # "ok" => body = PyStr(<<>>)
    /\ AfterAttempt(kind, IF impl = "enhancement_worker"
                          THEN EW_Attempt(kind, body, attempt)
                          ELSE WI_Attempt(kind, body, attempt))
    /\ UNCHANGED <<impl, attempt, cancelled, calls, slept, cancelAt>>
    /\ UNCHANGED <<parseVars, delayVars, guiVars, enhancerVars>>

\* a wait loop that sleeps without looking at the flag
SliceCancelled_Unchecked(flag) == FALSE

\* if self.cancelled.is_set() / if self.cancelled, at the head of each slice
SliceCancelled(flag) == flag

\* one pass of the wait loop up to time.sleep: the cancellation check
SleepCheck ==
    /\ pc = "sleep_check"
    /\ IF SliceCancelled(cancelled)
       THEN Return(EnhancementResult(FALSE, PyNone, PyNone, "None", attempt + 1,
                       IF impl = "enhancement_worker" THEN "Cancelled by user"
                       ELSE "Cancelled during retry delay"))
       ELSE /\ pc' = "sleeping"
            /\ UNCHANGED result
    /\ UNCHANGED <<impl, attempt, tick, cancelled, last_error, calls, slept,
                   cancelAt, lastOutcome, allTimeout,
                   last_status>>
    /\ UNCHANGED <<parseVars, delayVars, guiVars, enhancerVars>>

\* time.sleep(0.1) returns; after the last slice the next iteration begins
SleepTick ==
    /\ pc = "sleeping"
    /\ slept' = [slept EXCEPT ![attempt] = @ + 1]
    /\ IF tick + 1 < SleepSlices(attempt)
       THEN /\ tick' = tick + 1
            /\ pc' = "sleep_check"
            /\ UNCHANGED attempt
       ELSE /\ tick' = 0
            /\ attempt' = attempt + 1
            /\ pc' = "top"
    /\ UNCHANGED <<impl, cancelled, last_error, result, calls, cancelAt,
                   lastOutcome, allTimeout,
                   last_status>>
    /\ UNCHANGED <<parseVars, delayVars, guiVars, enhancerVars>>

Next ==
    \/ Cancel
    \/ \E promptOk \in BOOLEAN : Start(promptOk)
    \/ LoopTop
    \/ SendCall
    \/ \E kind \in OutcomeKinds, body \in ResponseValues : FinishCall(kind, body)
    \/ SleepCheck
    \/ SleepTick

Spec == Init /\ [][Next]_vars

\* the thread of enhance_direct keeps running and every network call returns
\* or times out
LiveSpec ==
    /\ Init
    /\ [][Next]_vars
    /\ WF_vars(LoopTop)
    /\ WF_vars(SendCall)
    /\ WF_vars(\E kind \in OutcomeKinds, body \in ResponseValues : FinishCall(kind, body))
    /\ WF_vars(SleepCheck)
    /\ WF_vars(SleepTick)

\* ------------------------------------------------------------------------
\* The parsers on their own: parse and reset_stats of one handler
\* ------------------------------------------------------------------------
MaxParses == 3

T_extra == <<"LB", "Q", "W", "Q", "COL", "D", "COM">> \o Tail(T_valid)
T_dupEn == <<"LB", "Q", "EN", "Q", "COL", "Q", "Q", "COM">> \o Tail(T_valid)
T_nested == <<"LB", "Q", "W", "Q", "COL", "LB", "RB", "COM">> \o Tail(T_valid)
T_broken == <<"LB", "Q", "EN", "Q", "COL", "Q", "W", "COM", "SP",
              "Q", "PL", "Q", "COL", "Q", "W", "Q", "RB">>

\* "prompt_en": "W, W", "prompt_pl": "W}" with no object around it
T_kvComma == <<"Q", "EN", "Q", "COL", "SP", "Q", "W", "COM", "SP", "W", "Q", "COM", "SP",
               "Q", "PL", "Q", "COL", "SP", "Q", "W", "RB", "Q">>

ParseBodies ==
    ResponseTexts \cup {T_extra, T_dupEn, T_nested, T_broken, T_kvComma}
\* an object that parses and lacks prompt_pl, then a space
IncompleteFirst == T_onlyEn \o <<"SP">>

ParsePrefixes ==
    {<<>>, <<"SP">>, <<"W", "SP">>, <<"LB", "W", "RB", "SP">>, <<"LB", "SP">>,
     IncompleteFirst}
ParseSuffixes == {<<>>, <<"SP">>, <<"SP", "W">>, <<"RB">>}

ParseTexts == {a \o b \o c : a \in ParsePrefixes, b \in ParseBodies, c \in ParseSuffixes}

\* arguments of parse: strings, and values that are no strings
ParseInputs ==
    {PyStr(t) : t \in ParseTexts} \cup {PyNone, PyNum(<<"D">>), PyList(<<>>)}

\* one handler; the argument of its parse calls is drawn here
ParseInit ==
    /\ impl = "enhancement_worker"
    /\ WorkerIdle
    /\ stats = ZeroStats
    /\ parseIn \in ParseInputs
    /\ parseOut = NoParse
    /\ DelayIdle
    /\ GuiIdle
    /\ EnhancerIdle

\* self.strategy_stats[...] += 1 of one parse call
CountParse(st, counted) ==
    [st EXCEPT !.total_attempts = @ + 1,
               !.direct = IF counted = "direct" THEN @ + 1 ELSE @,
               !.regex = IF counted = "regex" THEN @ + 1 ELSE @,
               !.partial = IF counted = "partial" THEN @ + 1 ELSE @,
               !.fallback = IF counted = "fallback" THEN @ + 1 ELSE @]

\* safe_json_handler.SafeJSONHandler.parse
Parse ==
    /\ stats.total_attempts < MaxParses
    /\ LET out == parse(parseIn)
       IN  /\ parseOut' = [handler |-> "safe_json_handler"] @@ out
           /\ stats' = CountParse(stats, out.counted)
    /\ UNCHANGED parseIn
    /\ UNCHANGED <<workerVars, delayVars, guiVars, enhancerVars>>

\* core.SafeJSONHandler.parse, which keeps no statistics and raises nothing
CoreParse ==
    /\ parseOut' = [handler |-> "core", raised |-> FALSE, counted |-> "none",
                    result |-> core_parse(parseIn)]
    /\ UNCHANGED <<stats, parseIn>>
    /\ UNCHANGED <<workerVars, delayVars, guiVars, enhancerVars>>

\* safe_json_handler.SafeJSONHandler.reset_stats
ResetStats ==
    /\ stats' = [k \in DOMAIN stats |-> 0]
    /\ UNCHANGED <<parseIn, parseOut>>
    /\ UNCHANGED <<workerVars, delayVars, guiVars, enhancerVars>>

\* utils.regex_utils.extract_json_from_response; re.search raises TypeError
\* for an argument that is no string
ExtractJson ==
    /\ parseOut' =
          IF IsStr(parseIn)
          THEN LET out == extract_json_from_response(parseIn)
               IN  [handler |-> "regex_utils", raised |-> FALSE, counted |-> "none",
                    result |-> ParseResult(TRUE, out.data,
                                  IF out.fallback THEN "FALLBACK_RAW" ELSE "PATTERN", "")]
          ELSE [handler |-> "regex_utils", raised |-> TRUE, counted |-> "none",
                result |-> ParseResult(FALSE, PyNone, "NONE", "TypeError")]
    /\ UNCHANGED <<stats, parseIn>>
    /\ UNCHANGED <<workerVars, delayVars, guiVars, enhancerVars>>

ParseNext ==
    \/ Parse
    \/ CoreParse
    \/ ExtractJson
    \/ ResetStats

ParseSpec == ParseInit /\ [][ParseNext]_vars

\* ------------------------------------------------------------------------
\* get_retry_delay on its own
\* ------------------------------------------------------------------------
MaxAttemptArg == 12

DelayInit ==
    /\ impl = "enhancement_worker"
    /\ WorkerIdle
    /\ ParseIdle
    /\ delayArgs \in [n : 0..MaxAttemptArg, m : 0..MaxAttemptArg]
    /\ delayVals = NoDelays
    /\ GuiIdle
    /\ EnhancerIdle

ComputeDelays ==
    /\ delayVals = NoDelays
    /\ delayVals' = [n |-> get_retry_delay(delayArgs.n),
                     m |-> get_retry_delay(delayArgs.m)]
    /\ UNCHANGED delayArgs
    /\ UNCHANGED <<workerVars, parseVars, guiVars, enhancerVars>>

DelayNext == ComputeDelays

DelaySpec == DelayInit /\ [][DelayNext]_vars

\* ------------------------------------------------------------------------
\* EnhanceTab of ui/tabs/enhance_tab.py: the handlers run on the GUI thread,
\* one at a time; the workers they start run as threads and report back
\* through queued signals
\* ------------------------------------------------------------------------
MaxWorkers == 2

PROGRESS_STEP == 20
PROGRESS_CAP == 99
ANALYZE_PROGRESS == 50

TabInit ==
    /\ impl = "enhancement_worker"
    /\ WorkerIdle
    /\ ParseIdle
    /\ DelayIdle
    /\ GuiIdle
    /\ EnhancerIdle

\* <worker>.start()
StartThread(kind) == [running EXCEPT ![kind] = @ + 1]

\* the thread of a worker has emitted finished and ended
EndThread(kind) == [running EXCEPT ![kind] = @ - 1]

\* ImageAnalysisWorker(self.current_image_path) and its start()
ImageAnalysisWorker(image_path) ==
    [StartThread("image") EXCEPT !.image_path[image_path] = @ + 1]

\* min(99, value + 20)
BumpProgress(v) ==
    IF v + PROGRESS_STEP > PROGRESS_CAP THEN PROGRESS_CAP ELSE v + PROGRESS_STEP

on_direct_enhance(promptOk) ==
    /\ direct_enhance_btn
    /\ running.direct < MaxWorkers
    /\ IF ~promptOk
       THEN UNCHANGED <<direct_enhance_btn, direct_progress, enhancement_worker,
                        running>>
       ELSE /\ direct_enhance_btn' = FALSE
            /\ direct_progress' = 0
            /\ enhancement_worker' = "direct"
            /\ running' = StartThread("direct")
    /\ UNCHANGED <<with_image_enhance_btn, with_image_analyze_btn,
                   current_image_path, image_analysis, with_image_progress>>
    /\ UNCHANGED <<workerVars, parseVars, delayVars, mainVars, enhancerVars>>

on_with_image_select(chosen) ==
    /\ IF chosen # NoImage
       THEN /\ current_image_path' = chosen
            /\ with_image_analyze_btn' = TRUE
       ELSE UNCHANGED <<current_image_path, with_image_analyze_btn>>
    /\ UNCHANGED <<direct_enhance_btn, with_image_enhance_btn, image_analysis,
                   enhancement_worker, running, direct_progress,
                   with_image_progress>>
    /\ UNCHANGED <<workerVars, parseVars, delayVars, mainVars, enhancerVars>>

on_with_image_analyze ==
    /\ with_image_analyze_btn
    /\ running.image < MaxWorkers
    /\ IF current_image_path = NoImage
       THEN UNCHANGED <<with_image_analyze_btn, with_image_progress, running>>
       ELSE /\ with_image_analyze_btn' = FALSE
            /\ with_image_progress' = ANALYZE_PROGRESS
            /\ running' = ImageAnalysisWorker(current_image_path)
    /\ UNCHANGED <<direct_enhance_btn, with_image_enhance_btn,
                   current_image_path, image_analysis, enhancement_worker,
                   direct_progress>>
    /\ UNCHANGED <<workerVars, parseVars, delayVars, mainVars, enhancerVars>>

on_with_image_enhance(promptOk) ==
    /\ with_image_enhance_btn
    /\ running.with_image < MaxWorkers
    /\ IF ~promptOk
       THEN UNCHANGED <<with_image_enhance_btn, with_image_progress,
                        enhancement_worker, running>>
       ELSE /\ with_image_enhance_btn' = FALSE
            /\ with_image_progress' = 0
            /\ enhancement_worker' = "with_image"
            /\ running' = StartThread("with_image")
    /\ UNCHANGED <<direct_enhance_btn, with_image_analyze_btn,
                   current_image_path, image_analysis, direct_progress>>
    /\ UNCHANGED <<workerVars, parseVars, delayVars, mainVars, enhancerVars>>

\* the enhancement worker the tab starts: a thread that, once started, emits
\* progress notifications and in the end one finished(success, result)
WorkerEmits(kind) == running[kind] > 0

\* a running enhancement worker emits progress
on_enhancement_progress(kind) ==
    /\ WorkerEmits(kind)
    /\ direct_progress' = BumpProgress(direct_progress)
    /\ with_image_progress' = BumpProgress(with_image_progress)
    /\ UNCHANGED <<direct_enhance_btn, with_image_enhance_btn,
                   with_image_analyze_btn, current_image_path, image_analysis,
                   enhancement_worker, running>>
    /\ UNCHANGED <<workerVars, parseVars, delayVars, mainVars, enhancerVars>>

\* the worker started by on_direct_enhance emits finished
on_enhancement_finished ==
    /\ WorkerEmits("direct")
    /\ running' = EndThread("direct")
    /\ direct_enhance_btn' = TRUE
    /\ UNCHANGED <<with_image_enhance_btn, with_image_analyze_btn,
                   current_image_path, image_analysis, enhancement_worker,
                   direct_progress, with_image_progress>>
    /\ UNCHANGED <<workerVars, parseVars, delayVars, mainVars, enhancerVars>>

\* the worker started by on_with_image_enhance emits finished
on_with_image_enhancement_finished ==
    /\ WorkerEmits("with_image")
    /\ running' = EndThread("with_image")
    /\ with_image_enhance_btn' = TRUE
    /\ UNCHANGED <<direct_enhance_btn, with_image_analyze_btn,
                   current_image_path, image_analysis, enhancement_worker,
                   direct_progress, with_image_progress>>
    /\ UNCHANGED <<workerVars, parseVars, delayVars, mainVars, enhancerVars>>

\* the result of analysing the image at path; what the tab stores of it is
\* modelled by the image it was computed from
AnalysisResult(path) == path

\* an ImageAnalysisWorker emits finished
on_image_analysis_finished(path, success) ==
    /\ running.image_path[path] > 0
    /\ running' = [EndThread("image") EXCEPT !.image_path[path] = @ - 1]
    /\ with_image_analyze_btn' = TRUE
    /\ IF success
       THEN /\ image_analysis' = AnalysisResult(path)
            /\ with_image_enhance_btn' = TRUE
       ELSE UNCHANGED <<image_analysis, with_image_enhance_btn>>
    /\ UNCHANGED <<direct_enhance_btn, current_image_path, enhancement_worker,
                   direct_progress, with_image_progress>>
    /\ UNCHANGED <<workerVars, parseVars, delayVars, mainVars, enhancerVars>>

TabNext ==
    \/ \E promptOk \in BOOLEAN : on_direct_enhance(promptOk)
    \/ \E chosen \in Images \cup {NoImage} : on_with_image_select(chosen)
    \/ on_with_image_analyze
    \/ \E promptOk \in BOOLEAN : on_with_image_enhance(promptOk)
    \/ \E kind \in {"direct", "with_image"} : on_enhancement_progress(kind)
    \/ on_enhancement_finished
    \/ on_with_image_enhancement_finished
    \/ \E path \in Images, success \in BOOLEAN :
           on_image_analysis_finished(path, success)

TabSpec == TabInit /\ [][TabNext]_vars

\* ------------------------------------------------------------------------
\* Properties
\* ------------------------------------------------------------------------
Returned == pc = "done"

\* a text field that is present and non-empty after trimming
NonBlankStr(v) == IsStr(v) /\ Len(Strip(v.s)) > 0

CancelledMessages == {"Cancelled by user", "Cancelled during retry delay"}

\* C1: every result returned with success = True has prompt_en and prompt_pl
\* both present and non-empty after trimming, whatever the response body was.
C1_SuccessHasBothFields ==
    (Returned /\ result.success)
        => (NonBlankStr(result.prompt_en) /\ NonBlankStr(result.prompt_pl))

\* the two SafeJSONHandler classes
ParserHandlers == {"core", "safe_json_handler"}

\* C2: parse is total: for every argument, the empty string and non-string
\* values included, it returns a ParseResult and raises no exception.
C2_ParseNeverRaises == parseOut.handler \in ParserHandlers => ~parseOut.raised

\* C3: an attempt whose parser outcome is the degraded fallback is a retryable
\* failure unless it is the final attempt; a degraded payload is returned as a
\* success on the final attempt only.
C3_DegradedOnlyOnFinalAttempt ==
    /\ (Returned /\ result.success /\ lastOutcome.strategy = "PARTIAL")
          => result.attempts = RETRY_MAX_ATTEMPTS
    /\ (Returned /\ lastOutcome.strategy = "PARTIAL"
        /\ result.attempts = RETRY_MAX_ATTEMPTS /\ cancelAt = NoCancel)
          => result.success

\* C4: a cancel() issued at any moment of the backoff wait that follows the
\* failed attempt k makes enhance_direct return a cancelled result with
\* attempts = k + 1, in every slice of the wait, the last one included.
C4_CancelDuringBackoff ==
    (Returned /\ cancelAt.pc \in {"sleep_check", "sleeping"})
        => /\ result.attempts = cancelAt.attempt + 1
           /\ result.error_message \in CancelledMessages

\* C5: when every call times out and the session is never cancelled, it makes
\* exactly 3 network calls, returns a failure with attempts = 3, has slept the
\* whole backoff of attempt 0 (20 slices) and of attempt 1 (40 slices), and
\* sleeps no slice after the last attempt.
C5_ThreeTimeouts ==
    (Returned /\ calls > 0 /\ allTimeout /\ ~cancelled)
        => /\ calls = 3
           /\ ~result.success
           /\ result.attempts = 3
           /\ slept[0] = 20
           /\ slept[1] = 40
           /\ \A a \in 2..RETRY_MAX_ATTEMPTS : slept[a] = 0

C5_Witness == Returned /\ calls = 3 /\ allTimeout /\ ~cancelled

\* min(RETRY_INITIAL_DELAY * RETRY_BACKOFF_MULTIPLIER^n, RETRY_MAX_DELAY)
ExpectedDelay(n) ==
    LET d == RETRY_INITIAL_DELAY * (RETRY_BACKOFF_MULTIPLIER ^ n)
    IN  IF d < RETRY_MAX_DELAY THEN d ELSE RETRY_MAX_DELAY

\* C6: get_retry_delay(n) is min(initial * multiplier^n, max): 2, 4, 8, 16 for
\* n = 0..3, non-decreasing in n, strictly increasing below the cap, and never
\* above the cap of 30.
C6_BackoffDelay ==
    delayVals # NoDelays
        => /\ delayVals.n = ExpectedDelay(delayArgs.n)
           /\ delayVals.n <= 30
           /\ delayArgs.n = 0 => delayVals.n = 2
           /\ delayArgs.n = 1 => delayVals.n = 4
           /\ delayArgs.n = 2 => delayVals.n = 8
           /\ delayArgs.n = 3 => delayVals.n = 16
           /\ delayArgs.n <= delayArgs.m => delayVals.n <= delayVals.m
           /\ (delayArgs.n < delayArgs.m /\ delayVals.n < 30)
                 => delayVals.n < delayVals.m

C6_Witness ==
    /\ delayVals # NoDelays
    /\ delayArgs.n = 3
    /\ delayArgs.m = 4
    /\ delayVals.m = 30

\* C7: every result enhance_direct returns, a success, a failure after the
\* last attempt or a cancelled one, carries an attempt count in 1..max.
C7_AttemptsInRange ==
    Returned => (result.attempts >= 1 /\ result.attempts <= RETRY_MAX_ATTEMPTS)

C7_Witness ==
    /\ Returned
    /\ cancelAt.pc = "idle"
    /\ result.error_message = "Cancelled by user"
    /\ calls = 0

\* C8: when cancel() is called while the network call of an attempt is in
\* flight, the response of that call is discarded: the session returns a
\* cancelled result, never a success built from that response.
C8_InFlightResponseDiscarded ==
    (Returned /\ cancelAt.pc = "call")
        => (~result.success /\ result.error_message \in CancelledMessages)

\* C9: once cancel() has set the flag nothing clears it, and a second cancel()
\* leaves the state as the first one left it.
C9_CancelMonotonic ==
    [][/\ cancelled => cancelled'
       /\ (cancelled /\ Cancel) => UNCHANGED vars]_vars

C9_Witness == Returned /\ cancelled /\ cancelAt.pc = "idle"

\* the argument is, as a whole, a JSON object whose two required fields are
\* strings that pass nonEmpty
WellFormedInput(v, nonEmpty(_)) ==
    /\ IsStr(v)
    /\ JsonLoads(v.s).ok
    /\ IsDict(JsonLoads(v.s).val)
    /\ \A key \in REQUIRED_KEYS :
          /\ DictHas(JsonLoads(v.s).val, key)
          /\ IsStr(DictGet(JsonLoads(v.s).val, key))
          /\ nonEmpty(DictGet(JsonLoads(v.s).val, key).s)

NotEmpty(s) == Len(s) > 0
NotBlank(s) == Len(Strip(s)) > 0

\* the call succeeded by direct parse, kept the fields as given, and counted
\* no other strategy
DirectOnly ==
    /\ ~parseOut.raised
    /\ parseOut.result.success
    /\ parseOut.result.strategy_used = "DIRECT_PARSE"
    /\ parseOut.result.data = JsonLoads(parseIn.s).val
    /\ parseOut.counted = "direct"
    /\ stats.regex = 0 /\ stats.partial = 0 /\ stats.fallback = 0
    /\ parseIn = PyStr(T_valid)
          => /\ DictGet(parseOut.result.data, KEY_EN) = PyStr(<<"W">>)
             /\ DictGet(parseOut.result.data, KEY_PL) = PyStr(<<"W", "SP", "W">>)

IsProse(s) == \E i \in 1..Len(s) : s[i] # "SP"

HasBrace(s) == \E i \in 1..Len(s) : s[i] \in {"LB", "RB"}

\* v is the object b with the text a before it and the text c after it, at
\* least one of them prose, and b alone is a well-formed object holding both
\* required fields
EmbeddedObject(v, a, b, c) ==
    /\ v = PyStr(a \o b \o c)
    /\ IsProse(a) \/ IsProse(c)
    /\ JsonLoads(b).ok
    /\ validate_json(JsonLoads(b).val)

RegexStrategies == {"REGEX", "REGEX_EXTRACTION"}

\* the call succeeded by pattern extraction with the fields of the object b
RegexFound(b) ==
    /\ ~parseOut.raised
    /\ parseOut.result.success
    /\ parseOut.result.strategy_used \in RegexStrategies
    /\ IsDict(parseOut.result.data)
    /\ \A key \in REQUIRED_KEYS :
          DictGet(parseOut.result.data, key) = DictGet(JsonLoads(b).val, key)

\* C11: a well-formed object holding both required fields with prose before
\* and/or after it is parsed by the pattern-extraction strategy, with the
\* field values the object alone gives, also when the prose holds braces.
C11_RegexForEmbeddedObject ==
    \A a \in ParsePrefixes, b \in ParseBodies, c \in ParseSuffixes :
        (parseOut.handler \in ParserHandlers /\ EmbeddedObject(parseIn, a, b, c))
            => RegexFound(b)

\* no part of the text is a JSON object
NoParseableObject(s) ==
    \A i \in 1..Len(s), j \in 1..Len(s) :
        (i < j /\ s[i] = "LB" /\ s[j] = "RB") => ~JsonLoads(SubSeq(s, i, j)).ok

\* the index of the first value token of a fragment "key": " that starts at
\* p and whose value is closed by a quote, 0 when no such fragment starts at p
FragmentValueStart(s, key, p) ==
    LET c == SkipWs(s, p + 3)
        q == SkipWs(s, c + 1)
    IN  IF /\ p + 2 <= Len(s)
           /\ s[p] = "Q" /\ s[p + 1] = key /\ s[p + 2] = "Q"
           /\ c <= Len(s) /\ s[c] = "COL"
           /\ q <= Len(s) /\ s[q] = "Q"
           /\ RunEnd(s, q + 1, {"Q"}) <= Len(s)
        THEN q + 1 ELSE 0

FragmentStarts(s, key) == {p \in 1..Len(s) : FragmentValueStart(s, key, p) # 0}

\* the text between the value quotes of the fragment of key
FragmentValue(s, key) ==
    LET vs == FragmentValueStart(s, key, CHOOSE p \in FragmentStarts(s, key) : TRUE)
    IN  SubSeq(s, vs, RunEnd(s, vs, {"Q"}) - 1)

\* the tokens a fragment of key occupies, both closing quotes included
FragmentSpan(s, key) ==
    LET p == CHOOSE x \in FragmentStarts(s, key) : TRUE
    IN  p .. RunEnd(s, FragmentValueStart(s, key, p), {"Q"})

\* broken structure with one fragment for each required field, the two apart
\* from each other and with values that are not blank
BrokenWithFragments(v) ==
    /\ IsStr(v)
    /\ NoParseableObject(v.s)
    /\ \A key \in {"EN", "PL"} :
          /\ Cardinality(FragmentStarts(v.s, key)) = 1
          /\ IsProse(FragmentValue(v.s, key))
    /\ FragmentSpan(v.s, "EN") \cap FragmentSpan(v.s, "PL") = {}

ScrapingStrategies == {"SPLIT", "PARTIAL_PARSE"}

\* the call succeeded by key-value scraping and each field holds the whole
\* text between its value quotes
ScrapedInFull ==
    /\ ~parseOut.raised
    /\ parseOut.result.success
    /\ parseOut.result.strategy_used \in ScrapingStrategies
    /\ IsDict(parseOut.result.data)
    /\ DictGet(parseOut.result.data, KEY_EN) = PyStr(FragmentValue(parseIn.s, "EN"))
    /\ DictGet(parseOut.result.data, KEY_PL) = PyStr(FragmentValue(parseIn.s, "PL"))

\* C12: a text with no parseable object that holds "prompt_en": "..." and
\* "prompt_pl": "..." fragments is parsed by key-value scraping, and each
\* field is the whole text between its value quotes, commas and closing
\* braces included.
C12_ScrapingRecoversFragments ==
    (parseOut.handler \in ParserHandlers /\ BrokenWithFragments(parseIn)) => ScrapedInFull

\* the strategy names under which a degraded payload is returned
DegradedStrategies == {"PARTIAL", "FALLBACK", "FALLBACK_RAW"}

\* a call on a string ended in the degraded fallback
DegradedOutcome ==
    /\ parseOut.handler # "none"
    /\ IsStr(parseIn)
    /\ ~parseOut.raised
    /\ parseOut.result.strategy_used \in DegradedStrategies

\* C13: when no stricter strategy succeeds, the degraded fallback returns a
\* payload whose prompt_en and prompt_pl both hold the same prefix (at most
\* 500 characters) of the raw text, under a degraded annotation; the payload
\* never lacks the fields and never holds text unrelated to the input.
C13_FallbackHoldsRawPrefix ==
    DegradedOutcome
        => /\ IsDict(parseOut.result.data)
           /\ \A key \in REQUIRED_KEYS :
                 /\ DictHas(parseOut.result.data, key)
                 /\ DictGet(parseOut.result.data, key)
                       = PyStr(Prefix(parseIn.s, RAW_PREFIX_LEN))

MaxClicks == 2

Buttons == {"enhance", "cancel"}

InCallOrWait == pc \in {"call", "sleep_check", "sleeping"}

MainInit ==
    /\ impl = "workers_init"
    /\ WorkerIdle
    /\ ParseIdle
    /\ DelayIdle
    /\ GuiIdle
    /\ EnhancerIdle

\* the user clicks a button; the click waits for the event loop
Click(btn) ==
    /\ Len(clicks) < MaxClicks
    /\ clicks' = Append(clicks, btn)
    /\ cancelClicked' =
          (cancelClicked \/ (btn = "cancel" /\ gui_thread = "enhancing" /\ InCallOrWait))
    /\ UNCHANGED <<enhance_button, cancel_button, gui_thread>>
    /\ UNCHANGED <<workerVars, parseVars, delayVars, tabVars, enhancerVars>>

\* self.worker = EnhancementWorker(debug=False) and the entry of enhance_direct
\* with a prompt that on_enhance_clicked has found non-empty
NewWorkerStarted ==
    /\ pc' = "top"
    /\ attempt' = 0
    /\ tick' = 0
    /\ cancelled' = FALSE
    /\ last_error' = "None"
    /\ result' = NoResult
    /\ calls' = 0
    /\ slept' = [a \in 0..RETRY_MAX_ATTEMPTS |-> 0]
    /\ cancelAt' = NoCancel
    /\ lastOutcome' = NoOutcome
    /\ allTimeout' = TRUE
    /\ last_status' = "IDLE"
    /\ UNCHANGED impl

\* on_enhance_clicked up to the call of enhance_direct
on_enhance_clicked(promptOk) ==
    IF ~promptOk
    THEN UNCHANGED <<enhance_button, cancel_button, gui_thread, cancelClicked,
                     workerVars>>
    ELSE /\ enhance_button' = FALSE
         /\ cancel_button' = TRUE
         /\ gui_thread' = "enhancing"
         /\ cancelClicked' = FALSE
         /\ NewWorkerStarted

\* on_cancel_clicked; self.worker is None until the first enhancement
on_cancel_clicked ==
    IF pc = "idle"
    THEN UNCHANGED <<enhance_button, cancel_button, gui_thread, cancelClicked,
                     workerVars>>
    ELSE /\ cancelled' = CancelFlag(cancelled)
         /\ cancelAt' = IF cancelled THEN cancelAt
                        ELSE [pc |-> pc, attempt |-> attempt, tick |-> tick]
         /\ enhance_button' = TRUE
         /\ cancel_button' = FALSE
         /\ UNCHANGED <<gui_thread, cancelClicked>>
         /\ UNCHANGED <<impl, pc, attempt, tick, last_error, result, calls,
                        slept, lastOutcome, allTimeout,
                   last_status>>

\* the event loop delivers the oldest click to its button; a disabled button
\* ignores it
Dispatch(promptOk) ==
    /\ gui_thread = "idle"
    /\ clicks # <<>>
    /\ clicks' = Tail(clicks)
    /\ CASE Head(clicks) = "enhance" /\ enhance_button -> on_enhance_clicked(promptOk)
         [] Head(clicks) = "cancel" /\ cancel_button -> on_cancel_clicked
         [] OTHER -> UNCHANGED <<enhance_button, cancel_button, gui_thread,
                                 cancelClicked, workerVars>>
    /\ UNCHANGED <<parseVars, delayVars, tabVars, enhancerVars>>

\* on_enhance_clicked after enhance_direct has returned: show the result and
\* reset the buttons
EnhanceReturned ==
    /\ gui_thread = "enhancing"
    /\ pc = "done"
    /\ enhance_button' = TRUE
    /\ cancel_button' = FALSE
    /\ gui_thread' = "idle"
    /\ UNCHANGED <<clicks, cancelClicked>>
    /\ UNCHANGED <<workerVars, parseVars, delayVars, tabVars, enhancerVars>>

MainNext ==
    \/ \E btn \in Buttons : Click(btn)
    \/ \E promptOk \in BOOLEAN : Dispatch(promptOk)
    \/ LoopTop
    \/ SendCall
    \/ \E kind \in OutcomeKinds, body \in ResponseValues : FinishCall(kind, body)
    \/ SleepCheck
    \/ SleepTick
    \/ EnhanceReturned

MainSpec == MainInit /\ [][MainNext]_vars

\* enhancement workers started and not finished
InFlight == running.direct + running.with_image

C16_CancelClickHandledBeforeReturn ==
    (gui_thread = "enhancing" /\ pc = "done" /\ cancelClicked) => cancelled

\* the fields of an EnhancementResult
ResultFields ==
    {"success", "prompt_en", "prompt_pl", "strategy_used", "attempts",
     "error_message"}

\* C17: whatever the upstream does on an attempt, no exception escapes
\* enhance_direct, and what it returns is an EnhancementResult
C17_NoExceptionEscapes ==
    /\ pc # "raised"
    /\ Returned => DOMAIN result = ResultFields

\* a session ended after a response text that parsed to a JSON value that is
\* not an object
C17_Witness ==
    /\ Returned
    /\ impl = "enhancement_worker"
    /\ lastOutcome.kind = "ok"
    /\ lastOutcome.strategy = "DIRECT"
    /\ last_error = "AttributeError"
    /\ ~result.success

\* the positions at which enhance_direct tests the flag next
AtCheck == pc \in {"top", "sleep_check"}

\* C18 as stated: once cancel() has been called, the session issues no
\* network call, wherever in the loop the cancel lands
C18_NoCallAfterCancel == [][cancelled => calls' = calls]_vars

\* C18, amended: a network call issued after cancel() is the call of the
\* attempt whose check at the top of the loop had passed when cancel() came,
\* and the first check that follows the cancel returns the cancelled result
C18_NoCallAfterObservedCancel ==
    [][/\ (cancelled /\ calls' > calls)
            => (cancelAt.pc = "send" /\ cancelAt.attempt = attempt)
       /\ (cancelled /\ AtCheck)
            => (pc' = "done" /\ ~result'.success
                /\ result'.error_message \in CancelledMessages)]_vars

\* cancel() came between the check at the top of an attempt and its network
\* call, the call failed, and the check of the following wait ended the session
C18_Witness ==
    /\ Returned
    /\ cancelAt.pc = "send"
    /\ calls = cancelAt.attempt + 1
    /\ slept[cancelAt.attempt] = 0
    /\ result.error_message \in CancelledMessages

\* the session returned a success that no degraded strategy produced
GenuineSuccess ==
    result.success /\ result.strategy_used \notin DegradedStrategies

\* C19: a session that is never cancelled and ends without a genuine success
\* has made exactly RETRY_MAX_ATTEMPTS network calls, whatever the failures
\* were
C19_EveryRetrySlotUsed ==
    (Returned /\ cancelAt = NoCancel /\ calls > 0 /\ ~GenuineSuccess)
        => calls = RETRY_MAX_ATTEMPTS

\* C20: a session that returns a success returns it from the attempt that
\* succeeded: attempts is that attempt's index plus one, the network calls made
\* are as many, and no slice of a backoff wait was slept after it
C20_SuccessReturnsAtOnce ==
    (Returned /\ result.success)
        => /\ result.attempts = attempt + 1
           /\ calls = attempt + 1
           /\ slept[attempt] = 0
           /\ lastOutcome.kind = "ok"

\* a success of the second attempt, after one failed attempt and its wait
C20_Witness ==
    /\ Returned
    /\ result.success
    /\ result.attempts = 2
    /\ slept[0] = SleepSlices(0)

\* C21: when every attempt has failed and the session was never cancelled,
\* the failure result reports RETRY_MAX_ATTEMPTS attempts and its error
\* message is the error of the final attempt
C21_ExhaustedReportsLastError ==
    (Returned /\ cancelAt = NoCancel /\ calls > 0 /\ ~result.success)
        => /\ result.attempts = RETRY_MAX_ATTEMPTS
           /\ result.error_message = lastOutcome.err

\* C22: a result returned by the cancellation check at the top of an attempt
\* carries as attempts the number of network calls the session has made
C22_TopCancelCountsExecuted ==
    [][(pc = "top" /\ pc' = "done") => result'.attempts = calls]_vars

\* C23: a call of enhance_direct that follows an earlier call on the same
\* worker starts uncancelled, whatever cancel() did during or after the
\* earlier call
C23_NewCallStartsUncancelled ==
    [][(pc = "done" /\ pc' = "top") => ~cancelled']_vars

\* the status that announces the result a session returned
TerminalStatus ==
    IF result.success THEN "SUCCESS"
    ELSE IF result.error_message \in CancelledMessages THEN "CANCELLED"
    ELSE "FAILED"

\* C24: every result enhance_direct of enhancement_worker.py returns was
\* announced by the status emitted last: SUCCESS for a success, FAILED for
\* exhausted retries, a cancelled status for a cancelled result
C24_TerminalStatusAnnounced ==
    (Returned /\ impl = "enhancement_worker") => last_status = TerminalStatus

\* what the pattern-extraction step of the handler h makes of the text s
PatternExtraction(h, s) ==
    CASE h = "core" -> core_strategy_regex(s)
      [] h = "safe_json_handler" -> strategy_regex_extraction(s)
      [] OTHER -> ParseResult(~extract_json_from_response(PyStr(s)).fallback,
                              extract_json_from_response(PyStr(s)).data,
                              "PATTERN", "")

\* the pattern-extraction result r is a success with the fields of the object b
ExtractedAs(r, b) ==
    /\ r.success
    /\ IsDict(r.data)
    /\ \A key \in REQUIRED_KEYS :
          DictGet(r.data, key) = DictGet(JsonLoads(b).val, key)

\* C25: when an object that parses but lacks a required field comes before a
\* valid object in the text, pattern extraction goes on to the valid object
\* and returns it
C25_EveryCandidateTried ==
    \A b \in ParseBodies, c \in ParseSuffixes :
        (/\ parseOut.handler # "none"
         /\ parseIn = PyStr(IncompleteFirst \o b \o c)
         /\ ~HasBrace(c)
         /\ JsonLoads(b).ok
         /\ validate_json(JsonLoads(b).val))
            => ExtractedAs(PatternExtraction(parseOut.handler, parseIn.s), b)

\* an object in which both required fields are non-empty strings
BothFieldsPresent(data) ==
    /\ IsDict(data)
    /\ \A key \in REQUIRED_KEYS :
          /\ DictHas(data, key)
          /\ IsStr(DictGet(data, key))
          /\ Len(DictGet(data, key).s) > 0

\* C26: a success of a strategy other than the degraded fallback carries an
\* object in which prompt_en and prompt_pl are both non-empty strings
C26_SuccessIsValidated ==
    (/\ parseOut.handler \in ParserHandlers
     /\ ~parseOut.raised
     /\ parseOut.result.success
     /\ parseOut.result.strategy_used \notin DegradedStrategies)
        => BothFieldsPresent(parseOut.result.data)

\* enhance_direct has been entered and has not returned
InSession == pc \in {"top", "send", "call", "sleep_check", "sleeping"}

\* the calls and the slices of a session stay within the configured numbers
WithinBudget ==
    /\ calls <= RETRY_MAX_ATTEMPTS
    /\ \A a \in 0..(RETRY_MAX_ATTEMPTS - 2) : slept[a] <= SleepSlices(a)
    /\ slept[RETRY_MAX_ATTEMPTS - 1] = 0

C28_CountersAddUp ==
    stats.total_attempts
        = stats.direct + stats.regex + stats.partial + stats.fallback

\* C29: in the with-image tab an enhancement is started only when the stored
\* analysis was produced for the image path selected at that moment.
C29_AnalysisOfSelectedImage ==
    [][(running'.with_image > running.with_image)
          => image_analysis = current_image_path]_vars

\* ------------------------------------------------------------------------
\* core/prompt_enhancer.py : PromptEnhancer.enhance_direct, one expansion
\* request and then one generation request, each a blocking requests.post
\* ------------------------------------------------------------------------
KEY_ELEMENTS == <<"EL">>
KEY_ERROR == <<"error">>
DEFAULT_WORD_COUNT == 200
MIN_WORDS_FLOOR == 50
MIN_PROMPT_CHARS == 20

\* {"prompt_en": "w", "prompt_pl": "w", "elements": <elems>}
ObjWithElements(elems) ==
    <<"LB", "Q", "EN", "Q", "COL", "Q", "W", "Q", "COM", "SP",
      "Q", "PL", "Q", "COL", "Q", "W", "Q", "COM", "SP",
      "Q", "EL", "Q", "COL">> \o elems \o <<"RB">>

E_elements == <<"LB", "Q", "EL", "Q", "COL", "LK", "Q", "W", "Q", "COM", "SP",
                "Q", "W", "Q", "RK", "RB">>
E_full == ObjWithElements(<<"LK", "Q", "W", "Q", "COM", "SP",
                            "Q", "W", "SP", "W", "Q", "RK">>)
E_fullProse == <<"W", "SP">> \o E_full
E_one == ObjWithElements(<<"LK", "Q", "W", "Q", "RK">>)
E_emptyList == ObjWithElements(<<"LK", "RK">>)
E_notList == ObjWithElements(<<"Q", "W", "Q">>)
E_numList == ObjWithElements(<<"LK", "D", "RK">>)
G_error == <<"LB", "Q", "EN", "Q", "COL", "Q", "W", "Q", "COM", "SP",
             "Q", "PL", "Q", "COL", "Q", "W", "Q", "COM", "SP",
             "Q", "error", "Q", "COL", "Q", "W", "Q", "RB">>
G_numEn == ObjOf(<<"D">>, StrLit(<<"W">>))

\* response.json().get("response", "") of the expansion request
ExpansionRaws ==
    {PyStr(t) : t \in {E_elements, E_full, E_fullProse, E_one, E_emptyList,
                       E_notList, E_numList, T_valid, T_garbage, <<>>}}
        \cup {PyNone}

\* response.json().get("response", "") of the generation request
GenerationRaws ==
    {PyStr(t) : t \in {T_valid, T_prose, T_garbage, T_onlyEn, G_error, G_numEn}}
        \cup {PyNone}

\* what a requests.post can come back with
Replies(raws) ==
    {[kind |-> "timeout", status |-> 0, raw |-> PyNone],
     [kind |-> "exception", status |-> 0, raw |-> PyNone],
     [kind |-> "http", status |-> 500, raw |-> PyNone]}
        \cup {[kind |-> "http", status |-> 200, raw |-> r] : r \in raws}

\* " + ".join(elements) for a list of strings
RECURSIVE JoinPlus(_)
JoinPlus(elems) ==
    IF Len(elems) = 0 THEN <<>>
    ELSE IF Len(elems) = 1 THEN elems[1].s
    ELSE elems[1].s \o <<"SP", "PLUS", "SP">> \o JoinPlus(Tail(elems))

\* the body of _expand_prompt after response.json(), given the extracted data
ExpandedFrom(data) ==
    IF Truthy(data) /\ DictHas(data, KEY_ELEMENTS)
    THEN LET elements == DictGet(data, KEY_ELEMENTS)
         IN  IF elements.t = "list"
             THEN IF \A k \in 1..Len(elements.elems) : IsStr(elements.elems[k])
                  THEN PyStr(JoinPlus(elements.elems))
                  ELSE PyNone
             ELSE PyNone
    ELSE PyNone

\* _expand_prompt: None unless the reply is a 200 whose extracted data holds
\* a list under "elements"; every exception is caught and gives None
expand_prompt_Lenient(reply) ==
    IF reply.kind = "http" /\ reply.status = 200 /\ IsStr(reply.raw)
    THEN LET e == ExpandedFrom(extract_json_from_response(reply.raw).data)
         IN  IF Truthy(e) THEN e ELSE PyStr(<<"W">>)
    ELSE PyStr(<<"W">>)

expand_prompt(reply) ==
    IF reply.kind = "http" /\ reply.status = 200 /\ IsStr(reply.raw)
    THEN ExpandedFrom(extract_json_from_response(reply.raw).data)
    ELSE PyNone

\* return False, {"error": msg}
PE_Fail(msg) ==
    [success |-> FALSE, data |-> PyDict(<<[k |-> KEY_ERROR, v |-> PyStr(<<msg>>)]>>)]

\* len(text.split())
WordCount(t) ==
    Cardinality({k \in 1..Len(t) : t[k] # "SP" /\ (k = 1 \/ t[k - 1] = "SP")})

\* _validate_enhancement for string prompts; the texts of the model hold none
\* of the detail keywords and not the word "error"
validate_enhancement(en, pl, detail_level) ==
    IF WordCount(en) < (IF DEFAULT_WORD_COUNT \div 2 > MIN_WORDS_FLOOR
                        THEN DEFAULT_WORD_COUNT \div 2 ELSE MIN_WORDS_FLOOR)
    THEN "Too short"
    ELSE IF detail_level = "high" THEN "Missing visual details"
    ELSE IF Len(Strip(en)) < MIN_PROMPT_CHARS \/ Len(Strip(pl)) < MIN_PROMPT_CHARS
    THEN "Result too short or empty"
    ELSE "Valid"

\* the metadata enhance_direct adds to the data it returns
WithMetadata(data, warning, args, expanded) ==
    LET d1 == IF warning = "Valid" THEN data.items
              ELSE DictSet(data.items, <<"validation_warning">>, PyStr(<<warning>>))
        d2 == DictSet(d1, <<"enhanced">>, PyBool(TRUE))
        d3 == DictSet(d2, <<"detail_level">>, PyStr(<<args.detail_level>>))
        d4 == DictSet(d3, <<"expanded_prompt">>, expanded)
    IN  PyDict(IF args.image_analysis
               THEN DictSet(d4, <<"image_data">>, PyBool(TRUE))
               ELSE d4)

\* stage 2 to 4 of enhance_direct once the data is extracted
Validated(data, args, expanded) ==
    IF ~Truthy(data) \/ DictHas(data, KEY_ERROR)
    THEN PE_Fail("Invalid JSON response")
    ELSE IF ~IsStr(DictGet(data, KEY_EN)) \/ ~IsStr(DictGet(data, KEY_PL))
    THEN PE_Fail("Exception")
    ELSE [success |-> TRUE,
          data |-> WithMetadata(data,
                       validate_enhancement(DictGet(data, KEY_EN).s,
                                            DictGet(data, KEY_PL).s,
                                            args.detail_level),
                       args, expanded)]

\* the try block of enhance_direct around the generation request
generate(reply, args, expanded) ==
    IF reply.kind = "timeout" THEN PE_Fail("Timeout")
    ELSE IF reply.kind = "exception" THEN PE_Fail("Exception")
    ELSE IF reply.status # 200 THEN PE_Fail("HTTP")
    ELSE IF ~IsStr(reply.raw) THEN PE_Fail("Exception")
    ELSE Validated(extract_json_from_response(reply.raw).data, args, expanded)

\* enhance_direct is entered and _expand_prompt posts the expansion request
PE_enhance_direct(image_given, detail_level) ==
    /\ stage \in {"idle", "done"}
    /\ stage' = "expand"
    /\ pe_args' = [image_analysis |-> image_given, detail_level |-> detail_level]
    /\ posted' = <<"expand">>
    /\ expansion_reply' = NoReply
    /\ expanded_prompt' = PyNone
    /\ pe_result' = NoResult
    /\ UNCHANGED <<workerVars, parseVars, delayVars, guiVars>>

\* the expansion request comes back: enhance_direct returns the failure or
\* goes on to post the generation request
PE_Expanded(reply, expanded) ==
    /\ stage = "expand"
    /\ expansion_reply' = reply
    /\ expanded_prompt' = expanded
    /\ IF ~Truthy(expanded)
       THEN /\ stage' = "done"
            /\ pe_result' = PE_Fail("Prompt expansion failed")
            /\ UNCHANGED posted
       ELSE /\ stage' = "generate"
            /\ posted' = Append(posted, "generate")
            /\ UNCHANGED pe_result
    /\ UNCHANGED pe_args
    /\ UNCHANGED <<workerVars, parseVars, delayVars, guiVars>>

\* the generation request comes back and enhance_direct returns
PE_Generated(reply) ==
    /\ stage = "generate"
    /\ stage' = "done"
    /\ pe_result' = generate(reply, pe_args, expanded_prompt)
    /\ UNCHANGED <<pe_args, posted, expansion_reply, expanded_prompt>>
    /\ UNCHANGED <<workerVars, parseVars, delayVars, guiVars>>

EnhancerInit ==
    /\ impl = "enhancement_worker"
    /\ WorkerIdle
    /\ ParseIdle
    /\ DelayIdle
    /\ GuiIdle
    /\ EnhancerIdle

EnhancerNext ==
    \/ \E image_given \in BOOLEAN, detail_level \in {"medium", "high"} :
           PE_enhance_direct(image_given, detail_level)
    \/ \E reply \in Replies(ExpansionRaws) : PE_Expanded(reply, expand_prompt(reply))
    \/ \E reply \in Replies(GenerationRaws) : PE_Generated(reply)

EnhancerSpec == EnhancerInit /\ [][EnhancerNext]_vars

\* the expansion reply is a 200 whose extracted data holds a list under
\* "elements"
ProducedElementList ==
    /\ expansion_reply.kind = "http"
    /\ expansion_reply.status = 200
    /\ IsStr(expansion_reply.raw)
    /\ LET data == extract_json_from_response(expansion_reply.raw).data
       IN  DictHas(data, KEY_ELEMENTS) /\ DictGet(data, KEY_ELEMENTS).t = "list"

\* the number of requests of one kind posted by the current call
PostedCount(kind) == Cardinality({k \in 1..Len(posted) : posted[k] = kind})

\* C30: enhance_direct posts the generation request only after the expansion
\* request produced an element list; when the expansion fails it returns
\* (False, {"error": ...}) without a generation request; a call posts at most
\* one expansion and at most one generation request.
C30_GenerationOnlyAfterExpansion ==
    /\ PostedCount("expand") <= 1
    /\ PostedCount("generate") <= 1
    /\ PostedCount("generate") = 1
         => (posted = <<"expand", "generate">> /\ ProducedElementList)
    /\ (stage = "done" /\ ~ProducedElementList)
         => /\ PostedCount("generate") = 0
            /\ ~pe_result.success
            /\ DictHas(pe_result.data, KEY_ERROR)

\* a 200 reply without usable elements ended the call before any generation
C30_Witness ==
    /\ stage = "done"
    /\ expansion_reply.kind = "http"
    /\ expansion_reply.status = 200
    /\ ~ProducedElementList
    /\ posted = <<"expand">>
    /\ ~pe_result.success

====
